---------------------------- MODULE Spec2Model ----------------------------
(***************************************************************************)
(* Model of the notebook "Natural Language Processing with RNNs": the      *)
(* character tokenizer, the windowing / shuffling / batching dataset        *)
(* pipeline, the training loop of model.fit and the generation cell.       *)
(*                                                                         *)
(* The notebook is a sequence of cells; pc names the next cell to run.     *)
(* The corpus, the texts handed to the tokenizer, the prompt, the shuffle  *)
(* order and the network's output are inputs: they are drawn from small    *)
(* sets.  A text is a sequence of one-character strings.                   *)
(***************************************************************************)
EXTENDS Integers, Sequences, FiniteSets

(***************************************************************************)
(* Bounds of the model.  n_steps, batch_size, buffer_size and epochs are   *)
(* the notebook's 100, 32, 10000 and 20 scaled down.                        *)
(***************************************************************************)
MaxLen == 6
\* longest corpus

MaxSample == 3
\* longest text handed to texts_to_sequences in the demonstration cells

MaxPrompt == 3
\* longest prompt handed to preprocess

ProbUnits == 1
\* a probability is a multiple of 1/ProbUnits

n_steps == 2

batch_size == 2

buffer_size == 2

epochs == 2

\* dataset.prefetch(1)
prefetch_size == 1

\* layers of the saved model that model_A is loaded from
MaxLayers == 3

\* the weights of a layer are one number in 0..MaxWeight
MaxWeight == 1

\* epochs of the fit with the reused layers frozen, 4 in the notebook
epochs_frozen == 2

\* epochs of the fit after the reused layers are unfrozen, 15 in the notebook
epochs_unfrozen == 2

\* characters a corpus is written in; "A" is the upper case of "a"
Alphabet == {"a", "A", " "}

\* characters a prompt or a sample text is written in; "?" is in no corpus
PromptAlphabet == {"a", "?"}

SeqsUpTo(S, n) == UNION {[1..m -> S] : m \in 0..n}

Range(s) == {s[i] : i \in 1..Len(s)}

Max(a, b) == IF a >= b THEN a ELSE b

(***************************************************************************)
(* The tokenizer: keras.preprocessing.text.Tokenizer(char_level=True),     *)
(* with its defaults lower=True, num_words=None, oov_token=None.           *)
(***************************************************************************)

\* a variant of Lower for a tokenizer built with lower=False
LowerNothing(c) == c

\* str.lower() on one character
Lower(c) == IF c = "A" THEN "a" ELSE c

\* text.lower()
LowerText(t) == [i \in 1..Len(t) |-> Lower(t[i])]

\* the keys of word_counts, an OrderedDict: the characters in first-seen order
RECURSIVE FirstSeen(_, _)
FirstSeen(t, acc) ==
    IF t = <<>> THEN acc
    ELSE FirstSeen(Tail(t),
                   IF Head(t) \in Range(acc) THEN acc ELSE Append(acc, Head(t)))

\* word_counts[c]
Count(t, c) == Cardinality({i \in 1..Len(t) : t[i] = c})

\* wcounts.sort(key=lambda x: x[1], reverse=True): stable, most frequent first
RECURSIVE SortByCount(_, _, _)
SortByCount(keys, t, acc) ==
    IF keys = <<>> THEN acc
    ELSE LET x == Head(keys)
             p == Cardinality({i \in 1..Len(acc) : Count(t, acc[i]) >= Count(t, x)})
         IN  SortByCount(Tail(keys), t,
                         SubSeq(acc, 1, p) \o <<x>> \o SubSeq(acc, p + 1, Len(acc)))

\* sorted_voc of fit_on_texts([t])
SortedVoc(t) == SortByCount(FirstSeen(LowerText(t), <<>>), LowerText(t), <<>>)

\* word_index = dict(zip(sorted_voc, range(1, len(sorted_voc) + 1)))
WordIndexOf(t) ==
    LET voc == SortedVoc(t)
    IN  [c \in Range(voc) |-> CHOOSE i \in 1..Len(voc) : voc[i] = c]

\* index_word = {c: w for w, c in word_index.items()}
IndexWordOf(wi) ==
    [i \in {wi[c] : c \in DOMAIN wi} |-> CHOOSE c \in DOMAIN wi : wi[c] = i]

\* a variant of TextsToSequences for a tokenizer with an oov_token: a
\* character with no identifier gets the identifier 1
RECURSIVE TextsToSequencesOov(_, _)
TextsToSequencesOov(wi, t) ==
    IF t = <<>> THEN <<>>
    ELSE LET w == Lower(Head(t))
         IN  <<IF w \in DOMAIN wi THEN wi[w] ELSE 1>>
             \o TextsToSequencesOov(wi, Tail(t))

\* texts_to_sequences: one text; a character with no identifier is skipped
RECURSIVE TextsToSequences(_, _)
TextsToSequences(wi, t) ==
    IF t = <<>> THEN <<>>
    ELSE LET w == Lower(Head(t))
         IN  (IF w \in DOMAIN wi THEN <<wi[w]>> ELSE <<>>)
             \o TextsToSequences(wi, Tail(t))

\* a variant of WordsOf that puts a placeholder where an identifier has no word
RECURSIVE WordsOfOov(_, _)
WordsOfOov(iw, seq) ==
    IF seq = <<>> THEN <<>>
    ELSE <<IF Head(seq) \in DOMAIN iw THEN iw[Head(seq)] ELSE "?">>
         \o WordsOfOov(iw, Tail(seq))

\* the words sequences_to_texts collects: an identifier with no word is skipped
RECURSIVE WordsOf(_, _)
WordsOf(iw, seq) ==
    IF seq = <<>> THEN <<>>
    ELSE (IF Head(seq) \in DOMAIN iw THEN <<iw[Head(seq)]>> ELSE <<>>)
         \o WordsOf(iw, Tail(seq))

\* a variant of JoinSpace with no separator: "".join(vect)
JoinNothing(vect) == vect

\* " ".join(vect)
RECURSIVE JoinSpace(_)
JoinSpace(vect) ==
    IF Len(vect) <= 1 THEN vect
    ELSE <<Head(vect), " ">> \o JoinSpace(Tail(vect))

\* sequences_to_texts: one sequence
SequencesToTexts(iw, seq) == JoinSpace(WordsOf(iw, seq))

\* a variant of MinusOne that keeps the tokenizer's 1-based identifiers
MinusNothing(seq) == seq

\* np.array(...) - 1
MinusOne(seq) == [i \in 1..Len(seq) |-> seq[i] - 1]

\* a variant of PlusOne that leaves the identifiers 0-based
PlusNothing(seq) == seq

\* Y_pred + 1
PlusOne(seq) == [i \in 1..Len(seq) |-> seq[i] + 1]

(***************************************************************************)
(* The dataset pipeline (tf.data) and the arrays of the generation cell.   *)
(***************************************************************************)

\* len(encoded) * 90 // 100
TrainSizeOf(n) == (n * 90) \div 100

\* a variant of Prefix that keeps the whole sequence: no part is held out
PrefixWhole(s, n) == s

\* encoded[:train_size]
Prefix(s, n) == SubSeq(s, 1, IF n <= Len(s) THEN n ELSE Len(s))

window_length == n_steps + 1

\* a variant of Window with drop_remainder=False: the short windows at the end
\* of the dataset are kept
WindowKeepRemainder(ds, size) ==
    [k \in 1..Len(ds) |->
        SubSeq(ds, k, IF k + size - 1 <= Len(ds) THEN k + size - 1 ELSE Len(ds))]

\* a variant of Window with shift=2: window k starts at element 2k - 1
WindowShiftTwo(ds, size) ==
    [k \in 1..(IF Len(ds) < size THEN 0 ELSE (Len(ds) - size) \div 2 + 1) |->
        SubSeq(ds, 2 * k - 1, 2 * k + size - 2)]

\* dataset.window(size, shift=1, drop_remainder=True): window k starts at
\* element k of the dataset and a window shorter than size is dropped
Window(ds, size) ==
    [k \in 1..Max(0, Len(ds) - size + 1) |-> SubSeq(ds, k, k + size - 1)]

\* window.batch(size): the window's elements in tensors of at most size elements
RECURSIVE Batch(_, _)
Batch(w, size) ==
    IF w = <<>> THEN <<>>
    ELSE IF Len(w) <= size THEN <<w>>
    ELSE <<SubSeq(w, 1, size)>> \o Batch(SubSeq(w, size + 1, Len(w)), size)

\* dataset.flat_map(lambda window: window.batch(window_length))
RECURSIVE FlatMap(_)
FlatMap(ds) ==
    IF ds = <<>> THEN <<>>
    ELSE Batch(Head(ds), window_length) \o FlatMap(Tail(ds))

\* windows[:, :-1]
Inputs(w) == SubSeq(w, 1, Len(w) - 1)

\* a variant of Targets that is not shifted: windows[:, :-1] again
TargetsUnshifted(w) == SubSeq(w, 1, Len(w) - 1)

\* windows[:, 1:]
Targets(w) == SubSeq(w, 2, Len(w))

\* a variant of OneHot that puts the 1 one index too low
OneHotShifted(i, depth) == [j \in 1..depth |-> IF j = i THEN 1 ELSE 0]

\* tf.one_hot of one identifier: all zero when the identifier is out of range
OneHot(i, depth) == [j \in 1..depth |-> IF j = i + 1 THEN 1 ELSE 0]

\* tf.one_hot of a row of identifiers
OneHotRow(row, depth) == [p \in 1..Len(row) |-> OneHot(row[p], depth)]

RECURSIVE Sum(_)
Sum(r) == IF r = <<>> THEN 0 ELSE Head(r) + Sum(Tail(r))

\* the softmax output at one position: a distribution over depth categories
Dist(depth) == {r \in [1..depth -> 0..ProbUnits] : Sum(r) = ProbUnits}

\* a variant of ArgmaxAxis1 that takes the arg-max over the categories, axis=2:
\* for each position the first category (0-based) of largest probability
ArgmaxAxis2(P, depth) ==
    [t \in 1..Len(P) |->
        (CHOOSE v \in 1..depth :
            /\ \A u \in 1..depth : P[t][u] <= P[t][v]
            /\ \A u \in 1..(v - 1) : P[t][u] < P[t][v]) - 1]

\* np.argmax(P, axis=1) of a (1, T, V) array: for each category the first
\* position (0-based) where its probability is largest
ArgmaxAxis1(P, depth) ==
    [v \in 1..depth |->
        (CHOOSE t \in 1..Len(P) :
            /\ \A u \in 1..Len(P) : P[u][v] <= P[t][v]
            /\ \A u \in 1..(t - 1) : P[u][v] < P[t][v]) - 1]

\* np.argmax of one position's distribution: the first largest category (0-based)
ArgmaxRow(r) ==
    (CHOOSE v \in 1..Len(r) :
        /\ \A u \in 1..Len(r) : r[u] <= r[v]
        /\ \A u \in 1..(v - 1) : r[u] < r[v]) - 1

VARIABLES
    pc,            \* the next cell of the notebook
    error,         \* "" or the exception that stopped the notebook
    text,          \* the corpus
    word_index,    \* tokenizer.word_index: character -> identifier
    index_word,    \* tokenizer.index_word: identifier -> character
    demo,          \* progress of the two demonstration cells
    sample,        \* the text of the texts_to_sequences demonstration
    sample_seq,    \* Out of tokenizer.texts_to_sequences([sample])
    sample_text,   \* Out of tokenizer.sequences_to_texts([sample_seq])
    distinct_ids,  \* len(tokenizer.word_index)
    encoded,       \* the corpus as identifiers, 0-based
    train_size,
    dataset,       \* the elements the deterministic stages of the pipeline yield
    epoch,         \* the epoch model.fit is in, 0 before the first
    iter,          \* "idle", or "running" while an epoch iterates the dataset
    pos,           \* elements the shuffle stage has pulled from its input
    buffer,        \* the shuffle buffer: indices into dataset
    batch_acc,     \* the batch under construction: indices into dataset
    batch_idx,     \* the windows of the batch last given to the trainer
    X_batch,       \* its inputs, one-hot
    Y_batch,       \* its targets
    presented,     \* the windows given to the trainer in this epoch
    updates,       \* parameter updates made by model.fit
    steps,         \* batches the trainer has processed in this epoch
    emitted,       \* the windows the shuffle stage has yielded in this epoch, in order
    hidden,        \* the recurrent layers' state: "zero", or "used" after a batch
    h_start,       \* the state the last batch was started from
    prefetched,    \* the batches the prefetch stage holds ready, oldest first
    tl_pc,         \* the next cell of the transfer-learning sequence
    model_A,       \* model_A.layers: the layer objects, by identity
    model_A_clone, \* model_A_clone.layers
    model_B_on_A,  \* model_B_on_A.layers
    weights,       \* layer object -> its weights
    weights_0,     \* layer object -> its weights when the models were built
    trainable,     \* layer object -> its trainable flag
    compiled,      \* the trainable flags model_B_on_A was last compiled with
    tl_epoch,      \* epochs of the running or last fit of model_B_on_A
    prompt,        \* the text handed to preprocess
    X_new,         \* preprocess([prompt])[0]
    Y_proba,       \* model.predict(X_new)[0]
    Y_pred,        \* Y_pred[0]
    result         \* the character the generation cell returns

tokVars == <<word_index, index_word>>

demoVars == <<demo, sample, sample_seq, sample_text>>

dataVars == <<distinct_ids, encoded, train_size, dataset>>

fitVars == <<epoch, iter, pos, buffer, batch_acc, batch_idx, X_batch, Y_batch,
             presented, updates, steps, emitted>>

rnnVars == <<hidden, h_start>>

pfVars == <<prefetched>>

tlVars == <<tl_pc, model_A, model_A_clone, model_B_on_A, weights, weights_0, trainable,
            compiled, tl_epoch>>

genVars == <<prompt, X_new, Y_proba, Y_pred, result>>

vars == <<pc, error, text, tokVars, demoVars, dataVars, fitVars, rnnVars, pfVars,
          tlVars, genVars>>

Init ==
    /\ pc = "fit_on_texts"
    /\ error = ""
    /\ text \in SeqsUpTo(Alphabet, MaxLen)
    /\ word_index = <<>>
    /\ index_word = <<>>
    /\ demo = "none"
    /\ sample = <<>>
    /\ sample_seq = <<>>
    /\ sample_text = <<>>
    /\ distinct_ids = 0
    /\ encoded = <<>>
    /\ train_size = 0
    /\ dataset = <<>>
    /\ epoch = 0
    /\ iter = "idle"
    /\ pos = 0
    /\ buffer = {}
    /\ batch_acc = <<>>
    /\ batch_idx = <<>>
    /\ X_batch = <<>>
    /\ Y_batch = <<>>
    /\ presented = {}
    /\ updates = 0
    /\ steps = 0
    /\ emitted = <<>>
    /\ hidden = "zero"
    /\ h_start = "zero"
    /\ prefetched = <<>>
    /\ tl_pc = "load"
    /\ model_A = <<>>
    /\ model_A_clone = <<>>
    /\ model_B_on_A = <<>>
    /\ weights = <<>>
    /\ weights_0 = <<>>
    /\ trainable = <<>>
    /\ compiled = <<>>
    /\ tl_epoch = 0
    /\ prompt = <<>>
    /\ X_new = <<>>
    /\ Y_proba = <<>>
    /\ Y_pred = <<>>
    /\ result = ""

\* tokenizer = Tokenizer(char_level=True); tokenizer.fit_on_texts([text])
FitOnTexts ==
    /\ pc = "fit_on_texts" /\ error = ""
    /\ word_index' = WordIndexOf(text)
    /\ index_word' = IndexWordOf(WordIndexOf(text))
    /\ pc' = "distinct_ids"
    /\ UNCHANGED <<tlVars, pfVars, rnnVars, error, text, demoVars, dataVars, fitVars, genVars>>

\* tokenizer.texts_to_sequences(['last'])
TextsToSequencesCell ==
    /\ pc = "distinct_ids" /\ error = ""
    /\ demo = "none"
    /\ \E t \in SeqsUpTo(PromptAlphabet \cup Alphabet, MaxSample) :
          /\ sample' = t
          /\ sample_seq' = TextsToSequences(word_index, t)
    /\ demo' = "encoded"
    /\ UNCHANGED <<tlVars, pfVars, rnnVars, pc, error, text, tokVars, sample_text, dataVars, fitVars, genVars>>

\* tokenizer.sequences_to_texts([[12, 5, 8, 3]])
SequencesToTextsCell ==
    /\ pc = "distinct_ids" /\ error = ""
    /\ demo = "encoded"
    /\ sample_text' = SequencesToTexts(index_word, sample_seq)
    /\ demo' = "decoded"
    /\ UNCHANGED <<tlVars, pfVars, rnnVars, pc, error, text, tokVars, sample, sample_seq, dataVars, fitVars,
                   genVars>>

(***************************************************************************)
(* The cells that build the training dataset.                              *)
(***************************************************************************)

\* distinct_ids = len(tokenizer.word_index)
DistinctIdsCell ==
    /\ pc = "distinct_ids" /\ error = ""
    /\ distinct_ids' = Cardinality(DOMAIN word_index)
    /\ pc' = "encode"
    /\ UNCHANGED <<tlVars, pfVars, rnnVars, error, text, tokVars, demoVars, encoded, train_size, dataset,
                   fitVars, genVars>>

\* [encoded] = np.array(tokenizer.texts_to_sequences([text])) - 1
EncodeCell ==
    /\ pc = "encode" /\ error = ""
    /\ encoded' = MinusOne(TextsToSequences(word_index, text))
    /\ pc' = "train_size"
    /\ UNCHANGED <<tlVars, pfVars, rnnVars, error, text, tokVars, demoVars, distinct_ids, train_size, dataset,
                   fitVars, genVars>>

\* train_size = len(encoded) * 90 // 100
TrainSizeCell ==
    /\ pc = "train_size" /\ error = ""
    /\ train_size' = TrainSizeOf(Len(encoded))
    /\ pc' = "from_tensor_slices"
    /\ UNCHANGED <<tlVars, pfVars, rnnVars, error, text, tokVars, demoVars, distinct_ids, encoded, dataset,
                   fitVars, genVars>>

\* dataset = tf.data.Dataset.from_tensor_slices(encoded[:train_size])
FromTensorSlicesCell ==
    /\ pc = "from_tensor_slices" /\ error = ""
    /\ dataset' = Prefix(encoded, train_size)
    /\ pc' = "window"
    /\ UNCHANGED <<tlVars, pfVars, rnnVars, error, text, tokVars, demoVars, distinct_ids, encoded, train_size,
                   fitVars, genVars>>

\* dataset = dataset.window(window_length, shift=1, drop_remainder=True)
WindowCell ==
    /\ pc = "window" /\ error = ""
    /\ dataset' = Window(dataset, window_length)
    /\ pc' = "flat_map"
    /\ UNCHANGED <<tlVars, pfVars, rnnVars, error, text, tokVars, demoVars, distinct_ids, encoded, train_size,
                   fitVars, genVars>>

\* dataset = dataset.flat_map(lambda window: window.batch(window_length))
FlatMapCell ==
    /\ pc = "flat_map" /\ error = ""
    /\ dataset' = FlatMap(dataset)
    /\ pc' = "shuffle_batch"
    /\ UNCHANGED <<tlVars, pfVars, rnnVars, error, text, tokVars, demoVars, distinct_ids, encoded, train_size,
                   fitVars, genVars>>

\* dataset = dataset.shuffle(10000).batch(batch_size); dataset = dataset.map(split):
\* lazy stages, run by the iteration of model.fit below
ShuffleBatchCell ==
    /\ pc = "shuffle_batch" /\ error = ""
    /\ pc' = "one_hot"
    /\ UNCHANGED <<tlVars, pfVars, rnnVars, error, text, tokVars, demoVars, dataVars, fitVars, genVars>>

\* dataset = dataset.map(lambda X_batch, Y_batch: (tf.one_hot(X_batch, ...), Y_batch)):
\* the map traces its function here, and tf.one_hot refuses the float64 elements
\* that np.array([[]]) - 1 gives for an empty corpus
OneHotCell ==
    /\ pc = "one_hot" /\ error = ""
    /\ IF text = <<>>
       THEN error' = "TypeError" /\ pc' = pc
       ELSE error' = error /\ pc' = "model"
    /\ UNCHANGED <<tlVars, pfVars, rnnVars, text, tokVars, demoVars, dataVars, fitVars, genVars>>

\* dataset = dataset.prefetch(1); model = Sequential([...]); model.compile(...):
\* the prefetch buffer is a step of its own in PrefetchSpec only; elsewhere
\* TrainStep takes each batch as the batch stage yields it
ModelCell ==
    /\ pc = "model" /\ error = ""
    /\ pc' = "fit"
    /\ UNCHANGED <<tlVars, pfVars, rnnVars, error, text, tokVars, demoVars, dataVars, fitVars, genVars>>

(***************************************************************************)
(* history = model.fit(dataset, epochs=20): each epoch iterates the         *)
(* dataset from the start.  shuffle keeps a buffer of buffer_size elements: *)
(* it fills the buffer from its input, then yields a random element of the  *)
(* buffer and refills; batch groups what shuffle yields.                    *)
(***************************************************************************)

\* the input of the shuffle stage is used up
Exhausted == pos = Len(dataset)

\* shuffle(buffer_size) yields once its buffer is full or its input is used up
ShuffleReady(buf, exhausted) ==
    buf # {} /\ (Cardinality(buf) = buffer_size \/ exhausted)

\* a variant of BatchReady with drop_remainder=True: a short last batch is dropped
BatchReadyDropRemainder(acc, exhausted) ==
    acc # <<>> /\ Len(acc) = batch_size

\* a variant of BatchReady that yields a batch as soon as it holds an element
BatchReadyEager(acc, exhausted) ==
    acc # <<>>

\* batch(batch_size), drop_remainder=False: a batch is yielded when it holds
\* batch_size elements, or when the input ends and it holds at least one
BatchReady(acc, exhausted) ==
    acc # <<>> /\ (Len(acc) = batch_size \/ exhausted)

\* a variant of BufferHasRoom for a buffer without a bound
BufferUnbounded(buf) == TRUE

\* shuffle(buffer_size): the buffer takes a further element only while it holds
\* fewer than buffer_size
BufferHasRoom(buf) == Cardinality(buf) < buffer_size

\* a variant of InitialState for a layer built with stateful=True: a batch
\* starts from the state the batch before it left
InitialStateStateful(h) == h

\* GRU(...) is built with the default stateful=False: every batch starts from
\* the zero state, whatever state h the batch before it left
InitialState(h) == "zero"

\* a variant of FitStartEpoch that goes on with the iterator of the epoch
\* before instead of making a new one
FitStartEpochNoRestart ==
    /\ pc = "fit" /\ error = ""
    /\ iter = "idle"
    /\ epoch < epochs
    /\ epoch' = epoch + 1
    /\ iter' = "running"
    /\ batch_acc' = <<>>
    /\ presented' = {}
    /\ steps' = 0
    /\ emitted' = <<>>
    /\ UNCHANGED <<tlVars, pfVars, rnnVars, pc, error, text, tokVars, demoVars, dataVars, pos, buffer,
                   batch_idx, X_batch, Y_batch, updates, genVars>>

\* an epoch begins: a new iterator over the dataset
FitStartEpoch ==
    /\ pc = "fit" /\ error = ""
    /\ iter = "idle"
    /\ epoch < epochs
    /\ epoch' = epoch + 1
    /\ iter' = "running"
    /\ pos' = 0
    /\ buffer' = {}
    /\ batch_acc' = <<>>
    /\ presented' = {}
    /\ steps' = 0
    /\ emitted' = <<>>
    /\ UNCHANGED <<tlVars, pfVars, rnnVars, pc, error, text, tokVars, demoVars, dataVars, batch_idx,
                   X_batch, Y_batch, updates, genVars>>

\* shuffle pulls the next window into its buffer
ShuffleFill ==
    /\ pc = "fit" /\ error = ""
    /\ iter = "running"
    /\ ~Exhausted
    /\ BufferHasRoom(buffer)
    /\ buffer' = buffer \cup {pos + 1}
    /\ pos' = pos + 1
    /\ UNCHANGED <<tlVars, pfVars, rnnVars, pc, error, text, tokVars, demoVars, dataVars, epoch, iter,
                   batch_acc, batch_idx, X_batch, Y_batch, presented, updates, steps,
                   emitted, genVars>>

\* shuffle yields a random element of its buffer to the batch being built
ShuffleEmit ==
    /\ pc = "fit" /\ error = ""
    /\ iter = "running"
    /\ ShuffleReady(buffer, Exhausted)
    /\ Len(batch_acc) < batch_size
    /\ \E k \in buffer :
          /\ buffer' = buffer \ {k}
          /\ batch_acc' = Append(batch_acc, k)
          /\ emitted' = Append(emitted, k)
    /\ UNCHANGED <<tlVars, pfVars, rnnVars, pc, error, text, tokVars, demoVars, dataVars, epoch, iter,
                   pos, batch_idx, X_batch, Y_batch, presented, updates, steps, genVars>>

\* a variant of TrainStep that runs although an earlier batch has failed
TrainStepAfterFailure ==
    /\ pc = "fit"
    /\ iter = "running"
    /\ BatchReady(batch_acc, Exhausted /\ buffer = {})
    /\ batch_idx' = batch_acc
    /\ X_batch' = [r \in 1..Len(batch_acc) |->
                      OneHotRow(Inputs(dataset[batch_acc[r]]), distinct_ids)]
    /\ Y_batch' = [r \in 1..Len(batch_acc) |-> Targets(dataset[batch_acc[r]])]
    /\ presented' = presented \cup Range(batch_acc)
    /\ updates' = updates + 1
    /\ steps' = steps + 1
    /\ h_start' = InitialState(hidden)
    /\ hidden' = "used"
    /\ batch_acc' = <<>>
    /\ UNCHANGED <<tlVars, pfVars, pc, error, text, tokVars, demoVars, dataVars, epoch, iter, pos,
                   buffer, emitted, genVars>>

\* a variant of TrainStep for a pipeline that splits the windows before it
\* shuffles them: the targets come in another order than the inputs
TrainStepSplitFirst ==
    /\ pc = "fit" /\ error = ""
    /\ iter = "running"
    /\ BatchReady(batch_acc, Exhausted /\ buffer = {})
    /\ batch_idx' = batch_acc
    /\ X_batch' = [r \in 1..Len(batch_acc) |->
                      OneHotRow(Inputs(dataset[batch_acc[r]]), distinct_ids)]
    /\ Y_batch' = [r \in 1..Len(batch_acc) |->
                      Targets(dataset[batch_acc[Len(batch_acc) + 1 - r]])]
    /\ presented' = presented \cup Range(batch_acc)
    /\ updates' = updates + 1
    /\ steps' = steps + 1
    /\ h_start' = InitialState(hidden)
    /\ hidden' = "used"
    /\ batch_acc' = <<>>
    /\ UNCHANGED <<tlVars, pfVars, pc, error, text, tokVars, demoVars, dataVars, epoch, iter, pos,
                   buffer, emitted, genVars>>

\* a batch reaches the trainer: the windows are split into inputs and targets,
\* the inputs are one-hot encoded, the recurrent layers run from their initial
\* state, and the parameters are updated once
TrainStep ==
    /\ pc = "fit" /\ error = ""
    /\ iter = "running"
    /\ BatchReady(batch_acc, Exhausted /\ buffer = {})
    /\ batch_idx' = batch_acc
    /\ X_batch' = [r \in 1..Len(batch_acc) |->
                      OneHotRow(Inputs(dataset[batch_acc[r]]), distinct_ids)]
    /\ Y_batch' = [r \in 1..Len(batch_acc) |-> Targets(dataset[batch_acc[r]])]
    /\ presented' = presented \cup Range(batch_acc)
    /\ updates' = updates + 1
    /\ steps' = steps + 1
    /\ h_start' = InitialState(hidden)
    /\ hidden' = "used"
    /\ batch_acc' = <<>>
    /\ UNCHANGED <<tlVars, pfVars, pc, error, text, tokVars, demoVars, dataVars, epoch, iter, pos,
                   buffer, emitted, genVars>>

\* processing a batch raises: model.fit has no handler, so the exception leaves
\* the cell and the notebook stops; the batch makes no update
TrainStepFails ==
    /\ pc = "fit" /\ error = ""
    /\ iter = "running"
    /\ BatchReady(batch_acc, Exhausted /\ buffer = {})
    /\ error' = "Exception"
    /\ UNCHANGED <<tlVars, pfVars, rnnVars, pc, text, tokVars, demoVars, dataVars, fitVars, genVars>>

\* the iterator is used up: the epoch ends and the tensors of its last batch
\* are released; fit raises when the dataset gave no batch at all
FitEndEpoch ==
    /\ pc = "fit" /\ error = ""
    /\ iter = "running"
    /\ Exhausted /\ buffer = {}
    /\ ~BatchReady(batch_acc, TRUE)
    /\ batch_acc' = <<>>
    /\ batch_idx' = <<>>
    /\ X_batch' = <<>>
    /\ Y_batch' = <<>>
    /\ IF presented = {}
       THEN error' = "ValueError" /\ iter' = iter
       ELSE error' = error /\ iter' = "idle"
    /\ UNCHANGED <<tlVars, pfVars, rnnVars, pc, text, tokVars, demoVars, dataVars, epoch, pos, buffer,
                   presented, updates, steps, emitted, genVars>>

\* a variant of PrefetchHasRoom for prefetch(2)
PrefetchHasRoomForTwo(q) == Len(q) < 2

\* prefetch(1): the stage asks its input for a further batch only while it
\* holds fewer than prefetch_size batches
PrefetchHasRoom(q) == Len(q) < prefetch_size

\* with prefetch, the stages before it run only when the prefetch stage asks
PrefetchShuffleFill == PrefetchHasRoom(prefetched) /\ ShuffleFill

PrefetchShuffleEmit == PrefetchHasRoom(prefetched) /\ ShuffleEmit

\* the prefetch stage takes the batch the batch stage yields and holds it ready
PrefetchPut ==
    /\ pc = "fit" /\ error = ""
    /\ iter = "running"
    /\ PrefetchHasRoom(prefetched)
    /\ BatchReady(batch_acc, Exhausted /\ buffer = {})
    /\ prefetched' = Append(prefetched, batch_acc)
    /\ batch_acc' = <<>>
    /\ UNCHANGED <<tlVars, rnnVars, pc, error, text, tokVars, demoVars, dataVars, epoch, iter,
                   pos, buffer, batch_idx, X_batch, Y_batch, presented, updates, steps,
                   emitted, genVars>>

\* the trainer takes the oldest batch the prefetch stage holds
PrefetchTrainStep ==
    /\ pc = "fit" /\ error = ""
    /\ iter = "running"
    /\ prefetched # <<>>
    /\ LET b == Head(prefetched)
       IN  /\ batch_idx' = b
           /\ X_batch' = [r \in 1..Len(b) |->
                             OneHotRow(Inputs(dataset[b[r]]), distinct_ids)]
           /\ Y_batch' = [r \in 1..Len(b) |-> Targets(dataset[b[r]])]
           /\ presented' = presented \cup Range(b)
    /\ prefetched' = Tail(prefetched)
    /\ updates' = updates + 1
    /\ steps' = steps + 1
    /\ h_start' = InitialState(hidden)
    /\ hidden' = "used"
    /\ UNCHANGED <<tlVars, pc, error, text, tokVars, demoVars, dataVars, epoch, iter, pos,
                   buffer, batch_acc, emitted, genVars>>

\* with prefetch, the epoch ends when the prefetch stage holds nothing more
PrefetchEndEpoch == prefetched = <<>> /\ FitEndEpoch

\* a variant of FitReturn with an early-stopping callback: the training may end
\* after any epoch
FitReturnEarlyStopping ==
    /\ pc = "fit" /\ error = ""
    /\ iter = "idle"
    /\ epoch >= 1
    /\ pc' = "generate"
    /\ pos' = 0
    /\ emitted' = <<>>
    /\ UNCHANGED <<tlVars, pfVars, rnnVars, error, text, tokVars, demoVars, dataVars, epoch, iter,
                   buffer, batch_acc, batch_idx, X_batch, Y_batch, presented, updates,
                   steps, genVars>>

\* model.fit returns after the last epoch, epochs=20 and no callback: its
\* iterator is released
FitReturn ==
    /\ pc = "fit" /\ error = ""
    /\ iter = "idle"
    /\ epoch = epochs
    /\ pc' = "generate"
    /\ pos' = 0
    /\ emitted' = <<>>
    /\ UNCHANGED <<tlVars, pfVars, rnnVars, error, text, tokVars, demoVars, dataVars, epoch, iter,
                   buffer, batch_acc, batch_idx, X_batch, Y_batch, presented, updates,
                   steps, genVars>>

(***************************************************************************)
(* The generation cell.                                                    *)
(***************************************************************************)

\* X of preprocess: np.array(tokenizer.texts_to_sequences(texts)) - 1, one text
PreprocessIds(wi, t) == MinusOne(TextsToSequences(wi, t))

\* a variant of PreprocessCell whose tokenizer learns the prompt's characters
PreprocessCellFitting ==
    /\ pc = "generate" /\ error = ""
    /\ \E p \in SeqsUpTo(PromptAlphabet, MaxPrompt) :
          /\ prompt' = p
          /\ word_index' = WordIndexOf(text \o p)
          /\ index_word' = IndexWordOf(WordIndexOf(text \o p))
          /\ pc' = "predict"
          /\ X_new' = OneHotRow(PreprocessIds(WordIndexOf(text \o p), p), distinct_ids)
    /\ UNCHANGED <<tlVars, pfVars, rnnVars, error, text, demoVars, dataVars, fitVars, Y_proba, Y_pred, result>>

\* X_new = preprocess([prompt]): np.array of an empty sequence is float64, which
\* tf.one_hot refuses
PreprocessCell ==
    /\ pc = "generate" /\ error = ""
    /\ \E p \in SeqsUpTo(PromptAlphabet, MaxPrompt) :
          /\ prompt' = p
          /\ IF PreprocessIds(word_index, p) = <<>>
             THEN error' = "TypeError" /\ pc' = pc /\ X_new' = X_new
             ELSE /\ error' = error
                  /\ pc' = "predict"
                  /\ X_new' = OneHotRow(PreprocessIds(word_index, p), distinct_ids)
    /\ UNCHANGED <<tlVars, pfVars, rnnVars, text, tokVars, demoVars, dataVars, fitVars, Y_proba, Y_pred, result>>

\* Y_pred = np.argmax(model.predict(X_new), axis=1): the network's output is one
\* distribution over the distinct_ids categories per position of X_new
PredictCell ==
    /\ pc = "predict" /\ error = ""
    /\ \E P \in [1..Len(X_new) -> Dist(distinct_ids)] :
          /\ Y_proba' = P
          /\ Y_pred' = ArgmaxAxis1(P, distinct_ids)
    /\ h_start' = InitialState(hidden)
    /\ hidden' = "used"
    /\ pc' = "decode"
    /\ UNCHANGED <<tlVars, pfVars, error, text, tokVars, demoVars, dataVars, fitVars, prompt, X_new,
                   result>>

\* tokenizer.sequences_to_texts(Y_pred + 1)[0][-1]: [-1] of an empty string raises
DecodeCell ==
    /\ pc = "decode" /\ error = ""
    /\ LET s == SequencesToTexts(index_word, PlusOne(Y_pred))
       IN  IF s = <<>>
           THEN error' = "IndexError" /\ pc' = pc /\ result' = result
           ELSE error' = error /\ pc' = "done" /\ result' = s[Len(s)]
    /\ UNCHANGED <<tlVars, pfVars, rnnVars, text, tokVars, demoVars, dataVars, fitVars, prompt, X_new, Y_proba,
                   Y_pred>>

Next ==
    \/ FitOnTexts
    \/ DistinctIdsCell
    \/ EncodeCell
    \/ TrainSizeCell
    \/ FromTensorSlicesCell
    \/ WindowCell
    \/ FlatMapCell
    \/ ShuffleBatchCell
    \/ OneHotCell
    \/ ModelCell
    \/ FitStartEpoch
    \/ ShuffleFill
    \/ ShuffleEmit
    \/ TrainStep
    \/ FitEndEpoch
    \/ FitReturn
    \/ PreprocessCell
    \/ PredictCell
    \/ DecodeCell

\* the notebook run from its first cell to its last
Spec == Init /\ [][Next]_vars

\* the tokenizer cells alone: fit, the two demonstration cells, distinct_ids
TokNext ==
    \/ FitOnTexts
    \/ TextsToSequencesCell
    \/ SequencesToTextsCell
    \/ DistinctIdsCell

TokSpec == Init /\ [][TokNext]_vars

\* the tokenizer is fitted and then encodes a text
EncodeNext == FitOnTexts \/ TextsToSequencesCell

EncodeSpec == Init /\ [][EncodeNext]_vars

\* the cells up to and including model.fit
TrainNext ==
    \/ FitOnTexts
    \/ DistinctIdsCell
    \/ EncodeCell
    \/ TrainSizeCell
    \/ FromTensorSlicesCell
    \/ WindowCell
    \/ FlatMapCell
    \/ ShuffleBatchCell
    \/ OneHotCell
    \/ ModelCell
    \/ FitStartEpoch
    \/ ShuffleFill
    \/ ShuffleEmit
    \/ TrainStep
    \/ FitEndEpoch
    \/ FitReturn

\* the steps of model.fit
FitNext ==
    FitStartEpoch \/ ShuffleFill \/ ShuffleEmit \/ TrainStep \/ FitEndEpoch \/ FitReturn

\* model.fit, once called, keeps running until it returns or raises; in these
\* runs no batch fails
TrainSpec == Init /\ [][TrainNext]_vars /\ WF_vars(FitNext)

\* the cells up to and including model.fit, with the prefetch stage between
\* the batch stage and the trainer
PrefetchNext ==
    \/ FitOnTexts
    \/ DistinctIdsCell
    \/ EncodeCell
    \/ TrainSizeCell
    \/ FromTensorSlicesCell
    \/ WindowCell
    \/ FlatMapCell
    \/ ShuffleBatchCell
    \/ OneHotCell
    \/ ModelCell
    \/ FitStartEpoch
    \/ PrefetchShuffleFill
    \/ PrefetchShuffleEmit
    \/ PrefetchPut
    \/ PrefetchTrainStep
    \/ PrefetchEndEpoch
    \/ FitReturn

PrefetchSpec == Init /\ [][PrefetchNext]_vars

\* the cells up to and including model.fit, in runs where a batch may fail
FailNext == TrainNext \/ TrainStepFails

FailSpec == Init /\ [][FailNext]_vars

(***************************************************************************)
(* Transfer learning with Keras.                                           *)
(***************************************************************************)

\* the layer objects keras.models.load_model creates for a model of n layers
LayersOfA(n) == [i \in 1..n |-> i]

\* the layer objects keras.models.clone_model creates: new ones
LayersOfClone(n) == [i \in 1..n |-> MaxLayers + i]

\* the layer object keras.layers.Dense(1, activation="sigmoid") creates
OutputOfB == 2 * MaxLayers + 1

\* model.get_weights(): the weights of the model's layers, in order
GetWeights(model) == [i \in 1..Len(model) |-> weights[model[i]]]

\* a variant of ReusedLayers that takes the layers of the clone
ReusedLayersOfClone(A, clone) == SubSeq(clone, 1, Len(clone) - 1)

\* model_A.layers[:-1]
ReusedLayers(A, clone) == SubSeq(A, 1, Len(A) - 1)

\* load_model, clone_model, set_weights(get_weights()), Sequential(layers[:-1])
\* and add(Dense): the saved model has n layers with weights w, the new output
\* layer starts from the random weights w_new
BuildCell ==
    /\ tl_pc = "load"
    /\ \E n \in 2..MaxLayers :
         \E w \in [1..n -> 0..MaxWeight], w_new \in 0..MaxWeight :
           LET A == LayersOfA(n)
               clone == LayersOfClone(n)
               objects == Range(A) \cup Range(clone) \cup {OutputOfB}
               built == [l \in objects |->
                            IF l = OutputOfB THEN w_new
                            ELSE IF l \in Range(A) THEN w[l]
                            ELSE w[l - MaxLayers]]
           IN  /\ model_A' = A
               /\ model_A_clone' = clone
               /\ model_B_on_A' = Append(ReusedLayers(A, clone), OutputOfB)
               /\ weights' = built
               /\ weights_0' = built
               /\ trainable' = [l \in objects |-> TRUE]
    /\ tl_pc' = "freeze"
    /\ UNCHANGED <<compiled, tl_epoch>>
    /\ UNCHANGED <<pc, error, text, tokVars, demoVars, dataVars, fitVars, rnnVars, pfVars,
                   genVars>>

\* a variant of SetTrainable that leaves every flag as it is
SetTrainableNothing(flag) == trainable

\* for layer in model_B_on_A.layers[:-1]: layer.trainable = flag
SetTrainable(flag) ==
    [l \in DOMAIN trainable |->
        IF l \in Range(SubSeq(model_B_on_A, 1, Len(model_B_on_A) - 1))
        THEN flag ELSE trainable[l]]

\* the cell that freezes the reused layers
FreezeCell ==
    /\ tl_pc = "freeze"
    /\ trainable' = SetTrainable(FALSE)
    /\ tl_pc' = "compile_frozen"
    /\ UNCHANGED <<model_A, model_A_clone, model_B_on_A, weights, weights_0, compiled,
                   tl_epoch>>
    /\ UNCHANGED <<pc, error, text, tokVars, demoVars, dataVars, fitVars, rnnVars, pfVars,
                   genVars>>

\* model_B_on_A.compile(...): the flags of its layers as they are now are the
\* ones the next fit trains with
Compile == [l \in Range(model_B_on_A) |-> trainable[l]]

\* model_B_on_A.compile(loss='binary_crossentropy', optimizer='sgd', ...)
CompileCell ==
    /\ tl_pc = "compile_frozen"
    /\ compiled' = Compile
    /\ tl_epoch' = 0
    /\ tl_pc' = "fit_frozen"
    /\ UNCHANGED <<model_A, model_A_clone, model_B_on_A, weights, weights_0, trainable>>
    /\ UNCHANGED <<pc, error, text, tokVars, demoVars, dataVars, fitVars, rnnVars, pfVars,
                   genVars>>

\* the layers a fit of model_B_on_A updates
TrainedLayers == {l \in DOMAIN compiled : compiled[l]}

\* one epoch of model_B_on_A.fit: the weights of the trained layers move, to
\* any values; the fit returns after the last of its epochs
FitEpoch(n_epochs, next_cell) ==
    /\ tl_epoch < n_epochs
    /\ \E u \in [TrainedLayers -> 0..MaxWeight] :
         weights' = [l \in DOMAIN weights |->
                        IF l \in TrainedLayers THEN u[l] ELSE weights[l]]
    /\ tl_epoch' = tl_epoch + 1
    /\ tl_pc' = IF tl_epoch + 1 = n_epochs THEN next_cell ELSE tl_pc
    /\ UNCHANGED <<model_A, model_A_clone, model_B_on_A, weights_0, trainable, compiled>>
    /\ UNCHANGED <<pc, error, text, tokVars, demoVars, dataVars, fitVars, rnnVars, pfVars,
                   genVars>>

\* history = model_B_on_A.fit(X_train, y_train_B, epochs=4)
FitFrozenCell == tl_pc = "fit_frozen" /\ FitEpoch(epochs_frozen, "unfreeze")

\* the cell that makes the reused layers trainable again
UnfreezeCell ==
    /\ tl_pc = "unfreeze"
    /\ trainable' = SetTrainable(TRUE)
    /\ tl_pc' = "compile_unfrozen"
    /\ UNCHANGED <<model_A, model_A_clone, model_B_on_A, weights, weights_0, compiled,
                   tl_epoch>>
    /\ UNCHANGED <<pc, error, text, tokVars, demoVars, dataVars, fitVars, rnnVars, pfVars,
                   genVars>>

\* a variant of Recompile that goes on to the fit without compiling
RecompileSkipped ==
    /\ tl_pc = "compile_unfrozen"
    /\ tl_epoch' = 0
    /\ tl_pc' = "fit_unfrozen"
    /\ UNCHANGED <<model_A, model_A_clone, model_B_on_A, weights, weights_0, trainable,
                   compiled>>
    /\ UNCHANGED <<pc, error, text, tokVars, demoVars, dataVars, fitVars, rnnVars, pfVars,
                   genVars>>

\* optimizer = keras.optimizers.SGD(learning_rate=1e-4); model_B_on_A.compile(...)
Recompile ==
    /\ tl_pc = "compile_unfrozen"
    /\ compiled' = Compile
    /\ tl_epoch' = 0
    /\ tl_pc' = "fit_unfrozen"
    /\ UNCHANGED <<model_A, model_A_clone, model_B_on_A, weights, weights_0, trainable>>
    /\ UNCHANGED <<pc, error, text, tokVars, demoVars, dataVars, fitVars, rnnVars, pfVars,
                   genVars>>

\* history = model_B_on_A.fit(X_train, y_train_B, epochs = 15)
FitUnfrozenCell == tl_pc = "fit_unfrozen" /\ FitEpoch(epochs_unfrozen, "done")

\* the cells up to and including model.fit, and the call of preprocess on a
\* prompt
PreprocessNext ==
    \/ FitOnTexts
    \/ DistinctIdsCell
    \/ EncodeCell
    \/ TrainSizeCell
    \/ FromTensorSlicesCell
    \/ WindowCell
    \/ FlatMapCell
    \/ ShuffleBatchCell
    \/ OneHotCell
    \/ ModelCell
    \/ FitStartEpoch
    \/ ShuffleFill
    \/ ShuffleEmit
    \/ TrainStep
    \/ FitEndEpoch
    \/ FitReturn
    \/ PreprocessCell

PreprocessSpec == Init /\ [][PreprocessNext]_vars

\* the cells of the transfer-learning sequence
TransferNext ==
    \/ BuildCell
    \/ FreezeCell
    \/ CompileCell
    \/ FitFrozenCell
    \/ UnfreezeCell
    \/ Recompile
    \/ FitUnfrozenCell

\* the transfer-learning cells read nothing of the text pipeline, whose corpus
\* is held at the empty one
TransferInit == Init /\ text = <<>>

TransferSpec == TransferInit /\ [][TransferNext]_vars


(***************************************************************************)
(* Properties.                                                             *)
(***************************************************************************)

CellOrder ==
    <<"fit_on_texts", "distinct_ids", "encode", "train_size", "from_tensor_slices",
      "window", "flat_map", "shuffle_batch", "one_hot", "model", "fit", "generate",
      "predict", "decode", "done">>

CellNo(c) == CHOOSE i \in 1..Len(CellOrder) : CellOrder[i] = c

\* cell c has run to its end
Ran(c) == CellNo(pc) > CellNo(c)

\* window k (1-based) of length window_length of the sequence s
WindowAt(s, k) == SubSeq(s, k, k + n_steps)

\* C1, as claimed: for a sequence of length N (here train_size) fed to the
\* windowing step, the number of windows produced is exactly N - L.
C1_Original ==
    Ran("flat_map") => Len(dataset) = train_size - n_steps

\* C1, amended: the number of windows is N - L when N >= L and 0 when N < L, and
\* window k (0-based) is positions k..k+L of the sequence fed to the windowing.
C1_WindowCount ==
    Ran("flat_map") =>
        /\ Len(dataset) = Max(0, train_size - n_steps)
        /\ \A k \in 1..Len(dataset) :
              dataset[k] = WindowAt(Prefix(encoded, train_size), k)

C1_Witness ==
    Ran("flat_map") /\ Len(dataset) >= 2 /\ dataset[1] # dataset[2]

\* C2: for every window given to the trainer, the input is the window's first L
\* elements and the target its last L elements: target[i] = input[i+1] for
\* 0 <= i < L-1, target[L-1] is the corpus element right after the input slice,
\* and both come from one contiguous slice of the corpus.
C2_InputTargetShift ==
    \A r \in 1..Len(Y_batch) :
        /\ Len(X_batch[r]) = n_steps
        /\ Len(Y_batch[r]) = n_steps
        /\ \A i \in 1..(n_steps - 1) :
              X_batch[r][i + 1] = OneHot(Y_batch[r][i], distinct_ids)
        /\ \E k \in 1..(Len(encoded) - n_steps) :
              /\ X_batch[r] = OneHotRow(SubSeq(encoded, k, k + n_steps - 1), distinct_ids)
              /\ Y_batch[r] = SubSeq(encoded, k + 1, k + n_steps)
              /\ Y_batch[r][n_steps] = encoded[k + n_steps]

C2_Witness ==
    /\ Len(Y_batch) = 2
    /\ Y_batch[1] # Y_batch[2]
    /\ Y_batch[1][1] # Y_batch[1][2]

\* an epoch of model.fit has ended
EpochEnded == epoch >= 1 /\ iter = "idle"

\* C3, as claimed: by the end of every epoch every full-length window of the
\* encoded corpus has been presented to the trainer.
C3_Original ==
    EpochEnded =>
        \A k \in 1..(Len(encoded) - n_steps) :
            \E j \in presented : dataset[j] = WindowAt(encoded, k)

\* C3, amended: in every epoch every full-length window of the training slice
\* encoded[:train_size] is eventually presented to the trainer, and the epoch
\* does not end before all of them have been.
C3_EveryTrainWindowPresented ==
    /\ [](Ran("flat_map") =>
            /\ Len(dataset) = Max(0, train_size - n_steps)
            /\ \A k \in 1..Len(dataset) :
                  dataset[k] = WindowAt(Prefix(encoded, train_size), k))
    /\ [](EpochEnded => presented = 1..Len(dataset))
    /\ (iter = "running" /\ dataset # <<>>) ~> (EpochEnded /\ presented = 1..Len(dataset))

C3_Witness ==
    /\ EpochEnded
    /\ epoch = epochs
    /\ Cardinality(presented) = 2
    /\ Len(encoded) - n_steps > Len(dataset)

\* the characters of a text
Chars(t) == Range(t)

\* seq with the identifier sep between each two consecutive elements
RECURSIVE Interleave(_, _)
Interleave(seq, sep) ==
    IF Len(seq) <= 1 THEN seq
    ELSE <<Head(seq), sep>> \o Interleave(Tail(seq), sep)

\* the demonstration cells have encoded and decoded a text over the corpus's
\* characters
RoundTripDone == demo = "decoded" /\ Chars(sample) \subseteq Chars(text)

\* C4, as claimed: for every corpus and every text over the corpus's characters,
\* encode(decode(encode(text))) = encode(text).
C4_Original ==
    RoundTripDone => TextsToSequences(word_index, sample_text) = sample_seq

\* C4, amended: encode(decode(encode(text))) = encode(text) when the corpus has
\* no space character or encode(text) has at most one identifier; otherwise it
\* is encode(text) with the identifier of the space between each two
\* consecutive identifiers, because decode joins the characters with spaces.
C4_RoundTrip ==
    RoundTripDone =>
        TextsToSequences(word_index, sample_text) =
            IF " " \in DOMAIN word_index
            THEN Interleave(sample_seq, word_index[" "])
            ELSE sample_seq

C4_Witness ==
    /\ RoundTripDone
    /\ " " \in DOMAIN word_index
    /\ Len(sample_seq) >= 2
    /\ TextsToSequences(word_index, sample_text) # sample_seq

\* C5, as claimed: after the vocabulary is built, distinct_ids is the number of
\* distinct characters that occur in the corpus, each corpus character has
\* exactly one identifier and each identifier exactly one character, and the
\* identifiers are exactly 1..distinct_ids.
C5_Original ==
    Ran("distinct_ids") =>
        /\ distinct_ids = Cardinality(Chars(text))
        /\ DOMAIN word_index = Chars(text)
        /\ \A c, d \in DOMAIN word_index : word_index[c] = word_index[d] => c = d
        /\ {word_index[c] : c \in DOMAIN word_index} = 1..distinct_ids
        /\ DOMAIN index_word = 1..distinct_ids
        /\ \A c \in DOMAIN word_index : index_word[word_index[c]] = c

\* C6: once fit_on_texts has run, no later step changes an entry of the
\* vocabulary, and once distinct_ids is set no later step changes it.
C6_VocabularyFrozen ==
    [][/\ pc # "fit_on_texts" => (word_index' = word_index /\ index_word' = index_word)
       /\ Ran("distinct_ids") => distinct_ids' = distinct_ids]_vars

\* the generation cell has returned for a prompt with a character the corpus
\* does not have, after training
C6_Witness ==
    /\ pc = "done"
    /\ updates > 0
    /\ \E i \in 1..Len(prompt) : prompt[i] \notin DOMAIN word_index
    /\ distinct_ids = 2

\* C7: the encoded corpus is as long as the corpus, and its i-th element is the
\* 0-based identifier of the corpus's i-th character.
C7_EncodedCorpus ==
    Ran("encode") =>
        /\ Len(encoded) = Len(text)
        /\ \A i \in 1..Len(text) :
              /\ encoded[i] = word_index[Lower(text[i])] - 1
              /\ index_word[encoded[i] + 1] = Lower(text[i])

C7_Witness ==
    /\ Ran("encode")
    /\ Len(encoded) = MaxLen
    /\ \E i, j \in 1..Len(encoded) : encoded[i] # encoded[j]

\* the prompt is not empty and all its characters are in the vocabulary
InVocabulary(t) == t # <<>> /\ \A i \in 1..Len(t) : Lower(t[i]) \in DOMAIN word_index

\* C8, as claimed: generation on a non-empty in-vocabulary prompt of T characters
\* returns the character whose identifier is the arg-max category of the
\* model's output at the last position, T-1.
C8_Original ==
    (pc = "done" /\ InVocabulary(prompt)) =>
        result = index_word[ArgmaxRow(Y_proba[Len(prompt)]) + 1]

\* C9, as claimed: generation on an empty prompt, or on a prompt with a
\* character absent from the vocabulary, raises an error and never returns a
\* character.
C9_Original ==
    ~InVocabulary(prompt) => pc # "done"

\* C10: every generation call that succeeds returns one character, and the
\* character is in the vocabulary, also when the prompt is longer than the
\* vocabulary.
C10_ResultInVocabulary ==
    pc = "done" =>
        /\ result \in DOMAIN word_index
        /\ \E i \in DOMAIN index_word : index_word[i] = result

\* a call that succeeds although an entry of Y_pred + 1 is no identifier
C10_Witness ==
    /\ pc = "done"
    /\ Len(X_new) > distinct_ids
    /\ \E v \in 1..Len(Y_pred) : Y_pred[v] + 1 \notin DOMAIN index_word

\* C11, as claimed: on an empty corpus the notebook stops in the cell that
\* builds the vocabulary; that cell does not complete with an empty mapping,
\* and no later cell computes distinct_ids = 0 or consumes it.
C11_Original ==
    text = <<>> => pc = "fit_on_texts"

\* C12: model.fit runs exactly epochs epochs and then returns: each epoch
\* uses up the batch stream, every batch makes exactly one parameter update
\* and nothing else makes one, so at the end of every epoch the updates are
\* epoch times the batches of an epoch, and a run in which no batch fails
\* returns with epochs times that many updates, never earlier and never later.
C12_TrainingTerminates ==
    /\ [](EpochEnded =>
             /\ Exhausted \/ Ran("fit")
             /\ presented = 1..Len(dataset)
             /\ steps >= 1
             /\ updates = epoch * steps)
    /\ [](Ran("fit") => (epoch = epochs /\ updates = epochs * steps))
    /\ [](epoch <= epochs)
    /\ [][/\ updates' # updates =>
              /\ updates' = updates + 1
              /\ steps' = steps + 1
              /\ batch_acc # <<>> /\ batch_idx' = batch_acc
          /\ steps' = steps + 1 => updates' = updates + 1
          /\ Ran("fit") => updates' = updates]_vars
    /\ (pc = "fit" /\ dataset # <<>>) ~> Ran("fit")

\* model.fit has returned after epochs epochs of two batches each
C12_Witness ==
    /\ Ran("fit")
    /\ error = ""
    /\ steps = 2
    /\ updates = epochs * 2

\* C13: when a batch fails in model.fit the run is over: the failing batch
\* makes no update, no step of the notebook is taken after the failure (no
\* later batch, no later epoch, no update), and the exception is handled
\* nowhere: the notebook stays stopped in the fit cell with the error.
C13_BatchFailureAborts ==
    /\ [][/\ error = ""
          /\ (pc = "fit" /\ error' # "") =>
                /\ pc' = pc /\ epoch' = epoch /\ iter' = iter
                /\ updates' = updates /\ steps' = steps
                /\ presented' = presented]_vars
    /\ [](error = "Exception" => (pc = "fit" /\ iter = "running" /\ ~Ran("fit")))

\* the first batch of the first epoch has failed, with a further batch and a
\* further epoch still to come
C13_Witness ==
    /\ error = "Exception"
    /\ epoch = 1 /\ epoch < epochs
    /\ updates = 0
    /\ Len(batch_acc) < Len(dataset)

\* C14, as claimed: every batch given to the trainer holds exactly batch_size
\* windows, however many windows the pipeline produces.
C14_Original ==
    batch_idx # <<>> =>
        (Len(batch_idx) = batch_size /\ Len(X_batch) = batch_size
            /\ Len(Y_batch) = batch_size)

\* C14: every batch given to the trainer holds batch_size windows, except
\* the last batch of an epoch when the number of windows is not a multiple of
\* batch_size: that batch holds the windows that remain, at least one.
C14_BatchSize ==
    batch_idx # <<>> =>
        /\ Len(X_batch) = Len(batch_idx)
        /\ Len(Y_batch) = Len(batch_idx)
        /\ Len(batch_idx) \in 1..batch_size
        /\ Len(batch_idx) < batch_size =>
              /\ presented = 1..Len(dataset)
              /\ Len(batch_idx) = Len(dataset) % batch_size

\* the second batch of an epoch over three windows holds one window
C14_Witness ==
    /\ Len(dataset) = batch_size + 1
    /\ steps = 2
    /\ Len(batch_idx) = 1
    /\ Len(X_batch) = 1

\* the positions of the training slice that window k of the dataset holds
PositionsOf(k) == k..(k + Len(dataset[k]) - 1)

\* the number of positions two consecutive windows share
Overlap(k) == Cardinality(PositionsOf(k) \cap PositionsOf(k + 1))

\* C15, as claimed: consecutive windows, each of n_steps + 1 elements and one
\* position apart, share n_steps - 1 elements.
C15_Original ==
    Ran("flat_map") =>
        \A k \in 1..(Len(dataset) - 1) : Overlap(k) = n_steps - 1

\* C15: consecutive windows, each of n_steps + 1 elements and one position
\* apart, share n_steps elements: window k holds positions k..k+n_steps of the
\* training slice, and its last n_steps elements are the first n_steps
\* elements of window k+1.
C15_WindowOverlap ==
    Ran("flat_map") =>
        \A k \in 1..(Len(dataset) - 1) :
            /\ dataset[k] = WindowAt(Prefix(encoded, train_size), k)
            /\ dataset[k + 1] = WindowAt(Prefix(encoded, train_size), k + 1)
            /\ Len(dataset[k]) = n_steps + 1
            /\ Overlap(k) = n_steps
            /\ SubSeq(dataset[k], 2, n_steps + 1) = SubSeq(dataset[k + 1], 1, n_steps)

\* three windows over a training slice whose elements tell the positions apart
C15_Witness ==
    /\ Ran("flat_map")
    /\ Len(dataset) = 3
    /\ dataset[1] # dataset[2]
    /\ dataset[2] # dataset[3]

\* C16: in a batch given to the trainer the inputs are one row of n_steps
\* vectors per window, each vector of distinct_ids entries with a single 1, at
\* the index of the input identifier, and 0 elsewhere; the targets are the
\* windows' identifiers themselves, n_steps integers per window, not encoded.
C16_FeatureEncoder ==
    \A r \in 1..Len(batch_idx) :
        /\ Len(X_batch) = Len(batch_idx) /\ Len(Y_batch) = Len(batch_idx)
        /\ Len(X_batch[r]) = n_steps /\ Len(Y_batch[r]) = n_steps
        /\ \A p \in 1..n_steps :
              /\ Len(X_batch[r][p]) = distinct_ids
              /\ X_batch[r][p][dataset[batch_idx[r]][p] + 1] = 1
              /\ \A v \in 1..distinct_ids :
                    v # dataset[batch_idx[r]][p] + 1 => X_batch[r][p][v] = 0
              /\ Y_batch[r][p] = dataset[batch_idx[r]][p + 1]
              /\ Y_batch[r][p] \in 0..(distinct_ids - 1)

\* a full batch whose inputs hold both identifiers of a vocabulary of two
C16_Witness ==
    /\ Len(batch_idx) = batch_size
    /\ distinct_ids = 2
    /\ \E r \in 1..Len(X_batch) : \E p, q \in 1..n_steps : X_batch[r][p] # X_batch[r][q]

\* C17: train_size is floor(0.9 * N) for an encoded corpus of N elements,
\* the dataset is built from the first train_size positions only, and every
\* window in the pipeline or given to the trainer lies within them: no window
\* holds a position beyond train_size, so the rest of the corpus is held out.
C17_TrainingPrefixOnly ==
    /\ Ran("train_size") =>
          /\ 10 * train_size <= 9 * Len(encoded)
          /\ 9 * Len(encoded) < 10 * (train_size + 1)
    /\ pc = "window" =>
          /\ Len(dataset) = train_size
          /\ \A i \in 1..train_size : dataset[i] = encoded[i]
    /\ Ran("flat_map") =>
          /\ \A k \in 1..Len(dataset) :
                /\ PositionsOf(k) \subseteq 1..train_size
                /\ dataset[k] = SubSeq(encoded, k, k + n_steps)
          /\ (buffer \cup presented \cup Range(batch_acc) \cup Range(batch_idx)
                \cup Range(emitted)) \subseteq 1..Len(dataset)
          /\ \A r \in 1..Len(batch_idx) :
                /\ batch_idx[r] + n_steps <= train_size
                /\ Y_batch[r] = SubSeq(encoded, batch_idx[r] + 1, batch_idx[r] + n_steps)

\* every window has been given to the trainer, and the identifier at the last
\* position of the corpus, which is held out, is in none of them
C17_Witness ==
    /\ EpochEnded
    /\ train_size < Len(encoded)
    /\ presented = 1..3
    /\ \A k \in presented : \A p \in 1..Len(dataset[k]) :
          dataset[k][p] # encoded[Len(encoded)]

C19_BoundedShuffle ==
    /\ Cardinality(buffer) <= buffer_size
    /\ \A k \in 1..Len(emitted) :
          /\ emitted[k] \in 1..Len(dataset)
          /\ emitted[k] <= k + buffer_size - 1
    /\ (Len(dataset) > buffer_size /\ emitted # <<>>) => emitted[1] # Len(dataset)

\* an epoch over more windows than the buffer holds, in which every window was
\* yielded as early as the buffer allows and the first window came last
C19_Witness ==
    /\ Len(dataset) > buffer_size
    /\ Len(emitted) = Len(dataset)
    /\ emitted[1] = buffer_size
    /\ emitted[2] = buffer_size + 1
    /\ emitted[Len(emitted)] = 1

\* the batches an epoch over n windows has
IsBatchCount(s, n) == s * batch_size >= n /\ (s - 1) * batch_size < n

\* C20: every epoch starts a new pass over the same dataset and ends: within
\* an epoch no window is yielded twice, at its end every window has been given
\* to the trainer exactly once, in as many batches as in every other epoch;
\* the order is chosen anew in each epoch, any window in the buffer may be the
\* next one.
C20_RestartableStream ==
    /\ [](pc = "fit" =>
             /\ \A i, j \in 1..Len(emitted) : emitted[i] = emitted[j] => i = j
             /\ Range(emitted) = presented \cup Range(batch_acc)
             /\ presented \cap Range(batch_acc) = {})
    /\ [](EpochEnded =>
             /\ presented = 1..Len(dataset)
             /\ IsBatchCount(steps, Len(dataset))
             /\ pc = "fit" => Len(emitted) = Len(dataset))
    /\ [][/\ epoch' # epoch =>
              /\ epoch' = epoch + 1 /\ epoch' <= epochs
              /\ pos' = 0 /\ buffer' = {} /\ emitted' = <<>> /\ presented' = {}
          /\ Ran("flat_map") => dataset' = dataset]_vars
    /\ [](( /\ pc = "fit" /\ error = "" /\ iter = "running"
            /\ ShuffleReady(buffer, Exhausted)
            /\ Len(batch_acc) < batch_size) =>
             \A k \in buffer : ENABLED (ShuffleEmit /\ emitted' = Append(emitted, k)))
    /\ (iter = "running" /\ dataset # <<>>) ~> EpochEnded

\* the second epoch has ended: every window was given once, in two batches,
\* and in an order that is not the order of the corpus
C20_Witness ==
    /\ EpochEnded /\ pc = "fit"
    /\ epoch = 2
    /\ steps = 2
    /\ Len(emitted) = 3
    /\ emitted[1] = 2
    /\ presented = 1..3

\* ceil(a / b) for b > 0
Ceil(a, b) == -((-a) \div b)

Min(a, b) == IF a <= b THEN a ELSE b

\* the pass of the current epoch over the dataset is complete
PassDone ==
    \/ EpochEnded
    \/ /\ pc = "fit" /\ iter = "running"
       /\ Exhausted /\ buffer = {} /\ batch_acc = <<>>

\* C21, as claimed: a pass over the dataset has ceil((train_size - L) / B)
\* batches and their sizes sum to train_size - L.
C21_Original ==
    PassDone =>
        /\ steps = Ceil(train_size - n_steps, batch_size)
        /\ Cardinality(presented) = train_size - n_steps

\* C21: with W = train_size - L windows when train_size >= L, and W = 0
\* otherwise, a pass over the dataset has ceil(W / B) batches whose sizes sum
\* to W: after s batches of an epoch min(s * B, W) windows have been given, so
\* all batches hold B windows except a last one of W mod B when that is not 0.
C21_BatchCount ==
    LET W == Max(0, train_size - n_steps)
    IN  /\ (pc = "fit" /\ epoch >= 1) =>
              /\ Len(dataset) = W
              /\ Cardinality(presented) = Min(steps * batch_size, W)
              /\ steps <= Ceil(W, batch_size)
        /\ PassDone =>
              /\ steps = Ceil(W, batch_size)
              /\ Cardinality(presented) = W
        /\ (batch_idx # <<>> /\ steps < Ceil(W, batch_size)) =>
              Len(batch_idx) = batch_size
        /\ (batch_idx # <<>> /\ steps = Ceil(W, batch_size) /\ W % batch_size # 0) =>
              Len(batch_idx) = W % batch_size

\* an epoch over three windows has ended after two batches, the last of one
C21_Witness ==
    /\ EpochEnded
    /\ train_size - n_steps = batch_size + 1
    /\ steps = 2
    /\ Cardinality(presented) = batch_size + 1

\* C22: in every batch given to the trainer, row r of the inputs and row r
\* of the targets come from one window, the r-th window the shuffle stage
\* yielded for this batch: the inputs are its first n_steps elements, one-hot,
\* and the targets its last n_steps elements, whatever the shuffle order.
C22_PairingSurvives ==
    \A r \in 1..Len(batch_idx) :
        LET w == dataset[batch_idx[r]]
        IN  /\ batch_idx[r] = emitted[(steps - 1) * batch_size + r]
            /\ Len(w) = n_steps + 1
            /\ Len(X_batch[r]) = n_steps
            /\ \A p \in 1..n_steps :
                  /\ X_batch[r][p][w[p] + 1] = 1
                  /\ Sum(X_batch[r][p]) = 1
            /\ Y_batch[r] = SubSeq(w, 2, n_steps + 1)

\* a batch of two different windows that the shuffle stage yielded in the
\* reverse of their order in the corpus
C22_Witness ==
    /\ Len(batch_idx) = 2
    /\ batch_idx[1] > batch_idx[2]
    /\ X_batch[1] # X_batch[2]
    /\ Y_batch[1] # Y_batch[2]

\* the identifiers the network is fed and gives, 0-based
ModelIds == 0..(distinct_ids - 1)

\* C23: the encoded corpus and the result of preprocess hold the tokenizer's
\* identifiers minus 1, all in 0..distinct_ids-1, so every one-hot vector fed
\* to the model, in training and in generation, has exactly one 1; and the
\* generation cell adds 1 to the identifiers before it decodes them.
C23_ZeroBasedIds ==
    /\ Ran("encode") =>
          \A i \in 1..Len(encoded) :
              /\ encoded[i] \in ModelIds
              /\ encoded[i] + 1 = word_index[Lower(text[i])]
    /\ \A r \in 1..Len(X_batch) : \A p \in 1..Len(X_batch[r]) :
          /\ Len(X_batch[r][p]) = distinct_ids
          /\ Sum(X_batch[r][p]) = 1
    /\ \A p \in 1..Len(X_new) :
          /\ Len(X_new[p]) = distinct_ids
          /\ Sum(X_new[p]) = 1
          /\ \E c \in DOMAIN word_index :
                /\ \E i \in 1..Len(prompt) : Lower(prompt[i]) = c
                /\ word_index[c] - 1 \in ModelIds
                /\ X_new[p][(word_index[c] - 1) + 1] = 1
    /\ pc = "done" =>
          \E v \in 1..Len(Y_pred) :
              /\ Y_pred[v] + 1 \in DOMAIN index_word
              /\ result = index_word[Y_pred[v] + 1]
              /\ \A u \in (v + 1)..Len(Y_pred) : Y_pred[u] + 1 \notin DOMAIN index_word

\* the generation cell has returned the character of identifier 2 for a
\* prediction of 1, over a vocabulary of two
C23_Witness ==
    /\ pc = "done"
    /\ distinct_ids = 2
    /\ Len(X_new) = 2
    /\ Y_pred[Len(Y_pred)] = 1
    /\ result = index_word[2]
    /\ \E i \in 1..Len(encoded) : encoded[i] = 0

\* C24, as claimed: Y_pred holds one entry per category, each a position in
\* 0..T-1, and the character returned is the one whose tokenizer identifier
\* is the last entry of Y_pred plus 1.
C24_Original ==
    pc = "done" =>
        /\ Len(Y_pred) = distinct_ids
        /\ \A v \in 1..Len(Y_pred) : Y_pred[v] \in 0..(Len(X_new) - 1)
        /\ Y_pred[distinct_ids] + 1 \in DOMAIN index_word
        /\ result = index_word[Y_pred[distinct_ids] + 1]

\* C24: Y_pred holds one entry per category, the first position in 0..T-1
\* where the category's probability is largest; the character returned is the
\* one whose tokenizer identifier is the last entry of Y_pred plus 1 when
\* that is an identifier of the vocabulary, as it always is for T <= V, and
\* otherwise the one of the last entry for which it is; the identifier is
\* one of 1..T.
C24_ArgmaxOverPositions ==
    /\ (pc = "decode" \/ pc = "done") =>
          /\ Len(Y_pred) = distinct_ids
          /\ \A v \in 1..Len(Y_pred) :
                /\ Y_pred[v] \in 0..(Len(X_new) - 1)
                /\ \A t \in 1..Len(Y_proba) :
                      /\ Y_proba[t][v] <= Y_proba[Y_pred[v] + 1][v]
                      /\ t < Y_pred[v] + 1 => Y_proba[t][v] < Y_proba[Y_pred[v] + 1][v]
    /\ pc = "done" =>
          /\ Len(X_new) <= distinct_ids =>
                result = index_word[Y_pred[distinct_ids] + 1]
          /\ \E v \in 1..Len(Y_pred) :
                /\ Y_pred[v] + 1 \in DOMAIN index_word
                /\ Y_pred[v] + 1 \in 1..Len(X_new)
                /\ result = index_word[Y_pred[v] + 1]
                /\ \A u \in (v + 1)..Len(Y_pred) : Y_pred[u] + 1 \notin DOMAIN index_word

\* the cell has returned the character of the last entry of Y_pred, which is
\* not the most probable category at the last position
C24_Witness ==
    /\ pc = "done"
    /\ Len(X_new) = 2
    /\ distinct_ids = 2
    /\ result = index_word[Y_pred[distinct_ids] + 1]
    /\ result # index_word[ArgmaxRow(Y_proba[Len(X_new)]) + 1]

\* the characters of the text t that the vocabulary has, lower-cased, in order
Known(t) == SelectSeq(LowerText(t), LAMBDA c : c \in DOMAIN word_index)

\* C25, as claimed: preprocess never raises, whatever characters the prompt
\* has: an empty or all-unknown prompt gives a result with no position.
C25_Original ==
    pc = "generate" => error = ""

\* C25: preprocess skips the characters that the vocabulary does not have:
\* for a prompt with at least one character of the vocabulary it does not
\* raise, and the result has one position per such character, in the
\* prompt's order; it raises exactly when no character is left, for an
\* empty or all-unknown prompt.
C25_UnknownSkipped ==
    /\ (pc = "generate" /\ error # "") => (error = "TypeError" /\ Known(prompt) = <<>>)
    /\ Ran("generate") =>
          /\ Known(prompt) # <<>>
          /\ Len(X_new) = Len(Known(prompt))
          /\ \A p \in 1..Len(X_new) :
                /\ X_new[p][word_index[Known(prompt)[p]]] = 1
                /\ Sum(X_new[p]) = 1

\* preprocess has returned two positions for a prompt of three characters,
\* one of them not in the vocabulary, over a vocabulary of two
C25_Witness ==
    /\ pc = "predict"
    /\ distinct_ids = 2
    /\ Len(prompt) = 3
    /\ prompt[2] \notin DOMAIN word_index
    /\ Len(X_new) = 2

\* the other case of a letter
SwapCase(c) == IF c = "a" THEN "A" ELSE IF c = "A" THEN "a" ELSE c

\* the text t with the case of its i-th character changed
FlipAt(t, i) == [t EXCEPT ![i] = SwapCase(t[i])]

BatchNo(s) ==
    SubSeq(emitted, (s - 1) * batch_size + 1, Min(s * batch_size, Len(dataset)))

\* C27: with the prefetch stage the trainer gets the batches it would get
\* without it: the s-th batch it takes is the s-th run of batch_size windows
\* the shuffle stage yields, with the inputs and targets of those windows,
\* every window is given once, and the stage never holds more than one
\* batch ready, the one that follows the batch the trainer took last.
C27_PrefetchTransparent ==
    /\ Len(prefetched) <= 1
    /\ pc = "fit" =>
          /\ batch_idx # <<>> =>
                /\ batch_idx = BatchNo(steps)
                /\ Len(X_batch) = Len(batch_idx) /\ Len(Y_batch) = Len(batch_idx)
                /\ \A r \in 1..Len(batch_idx) :
                      /\ Y_batch[r] = SubSeq(dataset[batch_idx[r]], 2, n_steps + 1)
                      /\ \A p \in 1..n_steps :
                            X_batch[r][p][dataset[batch_idx[r]][p] + 1] = 1
          /\ \A q \in 1..Len(prefetched) :
                prefetched[q] # <<>> /\ prefetched[q] = BatchNo(steps + q)
          /\ Cardinality(presented) = Min(steps * batch_size, Len(dataset))
          /\ \A i, j \in 1..Len(emitted) : emitted[i] = emitted[j] => i = j
    /\ EpochEnded =>
          /\ prefetched = <<>>
          /\ presented = 1..Len(dataset)
          /\ steps = Ceil(Len(dataset), batch_size)

\* the trainer has taken the first batch of an epoch and the prefetch stage
\* holds the second and last one ready
C27_Witness ==
    /\ steps = 1
    /\ Len(batch_idx) = batch_size
    /\ Len(prefetched) = 1
    /\ Len(prefetched[1]) = 1
    /\ Len(emitted) = Len(dataset)

\* the cells of the first training phase, and the one that follows it
FirstPhase == {"compile_frozen", "fit_frozen", "unfreeze"}

\* C28: from the freeze to the end of the fit of 4 epochs that follows the
\* compile, no layer but the new output layer of model_B_on_A changes its
\* weights: every reused layer has the weights it had before the phase
C28_FrozenLayersKeepWeights ==
    tl_pc \in FirstPhase =>
        \A l \in DOMAIN weights \ {OutputOfB} : weights[l] = weights_0[l]

\* the first phase has run to its end and has changed the new output layer
C28_Witness ==
    /\ tl_pc = "unfreeze"
    /\ tl_epoch = epochs_frozen
    /\ weights[OutputOfB] # weights_0[OutputOfB]
    /\ \A i \in 1..(Len(model_B_on_A) - 1) : ~trainable[model_B_on_A[i]]

\* the trainable flags of the layers of model_B_on_A as they are now
FlagsNow == [l \in Range(model_B_on_A) |-> trainable[l]]

\* C29: whenever a fit of model_B_on_A runs, the trainable flags of its layers
\* are the ones of the most recent compile (each change of the flags was
\* followed by a compile before the fit); the first fit runs its 4 epochs
\* with the reused layers frozen, the second runs with every layer trainable
C29_CompileAfterEveryFlagChange ==
    /\ tl_pc \in {"fit_frozen", "fit_unfrozen"} => compiled = FlagsNow
    /\ tl_pc = "fit_frozen" =>
           \A l \in Range(model_B_on_A) : trainable[l] <=> l = OutputOfB
    /\ tl_pc = "unfreeze" => tl_epoch = epochs_frozen
    /\ tl_pc = "fit_unfrozen" =>
           \A l \in Range(model_B_on_A) : trainable[l] /\ compiled[l]
    /\ tl_pc = "done" => tl_epoch = epochs_unfrozen /\ compiled = FlagsNow

\* the second fit is running, after the first one, with flags that differ
\* from the first fit's
C29_Witness ==
    /\ tl_pc = "fit_unfrozen"
    /\ tl_epoch > 0
    /\ \A l \in Range(model_B_on_A) : compiled[l]
    /\ \E l \in Range(model_B_on_A) : weights[l] # weights_0[l] /\ l # OutputOfB

\* the models of the transfer-learning sequence are built
Built == tl_pc # "load"

\* C30: the layers of model_B_on_A but its last are model_A's own layer
\* objects, none of them a layer of model_A_clone, so that the weights
\* training gives them are model_A's weights too; model_A_clone keeps the
\* weights copied from model_A before any training, whatever model_B_on_A is
\* trained to
C30_SharedWithANotWithClone ==
    Built =>
        /\ Len(model_B_on_A) = Len(model_A)
        /\ \A i \in 1..(Len(model_A) - 1) :
               /\ model_B_on_A[i] = model_A[i]
               /\ GetWeights(model_B_on_A)[i] = GetWeights(model_A)[i]
        /\ Range(model_A_clone) \cap (Range(model_A) \cup Range(model_B_on_A)) = {}
        /\ GetWeights(model_A_clone) =
               [i \in 1..Len(model_A) |-> weights_0[model_A[i]]]

\* training model_B_on_A with the reused layers trainable has changed a
\* layer of model_A, and the clone still has that layer's former weights
C30_Witness ==
    /\ tl_pc = "done"
    /\ \E i \in 1..(Len(model_A) - 1) :
           /\ GetWeights(model_A)[i] # weights_0[model_A[i]]
           /\ GetWeights(model_A_clone)[i] = weights_0[model_A[i]]
           /\ GetWeights(model_A_clone)[i] # GetWeights(model_A)[i]

=============================================================================
